---- MODULE Spec2Model ----
(***************************************************************************)
(* Model of pdf_generator.py: the interactive main() pipeline (load data,  *)
(* read and validate the template, invoice / batch / single generation)    *)
(* and the pure text functions it relies on (escape, str.replace,          *)
(* render_template, extract_placeholders, validate_html, int(), str()).    *)
(* Text is modelled as a sequence of one-character strings.                *)
(***************************************************************************)
EXTENDS Integers, Sequences, FiniteSets, TLC

VARIABLES
    files_found,      \* what find_data_files / find_template_files returned
    src,              \* the selected data file: suffix, parse success, rows
    tfile,            \* the selected template file: name, readable, text
    pc,               \* position of main()
    data_records,     \* main: data_records
    template_content, \* main: template_content / render_template argument
    placeholders,     \* main: placeholders (extract_placeholders result)
    clock,            \* wall clock, in seconds
    timestamp,        \* main: timestamp (captured once, line 223)
    mode,             \* "none" | "invoice" | "all" | "single"
    id_field,         \* main: id_field
    idx,              \* number of records the batch loop has visited
    generated_files,  \* main: generated_files
    gen_idx,          \* history: index of the record behind each generated file
    conv_log,         \* history: outcome of each render-and-convert attempt
    disk,             \* files in OUTPUT_DIR: name -> html the PDF was made from
    log,              \* entries written through logger
    grand_total,      \* main: grand_total (invoice mode)
    outcome,          \* how main() ended
    viewer,           \* paths handed to open_pdf
    reported,         \* count printed by the final report, -1 if not printed
    render_calls,     \* history: calls of render_template made by main
    pdf_calls,        \* history: calls of generate_pdf made by main
    data,             \* render_template argument (pure-function checks)
    result            \* render_template return value (pure-function checks)

vars == <<files_found, src, tfile, pc, data_records, template_content,
          placeholders, clock, timestamp, mode, id_field, idx,
          generated_files, gen_idx, conv_log, disk, log, grand_total,
          outcome, viewer, reported, render_calls, pdf_calls, data, result>>

\* ---------------------------------------------------------------- bounds
MaxRecords == 4
MaxParts == 2
InvoiceLimit == 3

\* ------------------------------------------------------------------ text
Letters == {"a","b","c","d","e","f","g","h","i","j","k","l","m","n","o","p",
            "q","r","s","t","u","v","w","x","y","z",
            "A","B","C","D","E","F","G","H","I","J","K","L","M","N","O","P",
            "Q","R","S","T","U","V","W","X","Y","Z"}
DigitChars == {"0","1","2","3","4","5","6","7","8","9"}
Whitespace == {" ", "\n", "\t"}

DigitChar(d) == CASE d = 0 -> "0" [] d = 1 -> "1" [] d = 2 -> "2" [] d = 3 -> "3"
                  [] d = 4 -> "4" [] d = 5 -> "5" [] d = 6 -> "6" [] d = 7 -> "7"
                  [] d = 8 -> "8" [] d = 9 -> "9"

DigitVal(c) == CASE c = "0" -> 0 [] c = "1" -> 1 [] c = "2" -> 2 [] c = "3" -> 3
                 [] c = "4" -> 4 [] c = "5" -> 5 [] c = "6" -> 6 [] c = "7" -> 7
                 [] c = "8" -> 8 [] c = "9" -> 9

RECURSIVE Digits(_)
Digits(n) == IF n < 10 THEN <<DigitChar(n)>>
             ELSE Digits(n \div 10) \o <<DigitChar(n % 10)>>

RECURSIVE Pad(_, _)
Pad(s, width) == IF Len(s) >= width THEN s ELSE Pad(<<"0">> \o s, width)

StartsWithAt(s, p, i) ==
    /\ i + Len(p) - 1 <= Len(s)
    /\ \A j \in 1..Len(p) : s[i + j - 1] = p[j]

Contains(s, p) == \E i \in 1..(Len(s) + 1) : StartsWithAt(s, p, i)

Count(s, chars) == Cardinality({i \in 1..Len(s) : s[i] \in chars})

\* str.replace(old, new) for a non-empty old: leftmost, non-overlapping
MatchesFrom(s, old, i) == {j \in i..Len(s) : StartsWithAt(s, old, j)}

RECURSIVE ReplaceFrom(_, _, _, _)
ReplaceFrom(s, old, new, i) ==
    IF MatchesFrom(s, old, i) = {} THEN SubSeq(s, i, Len(s))
    ELSE LET j == CHOOSE x \in MatchesFrom(s, old, i) :
                      \A y \in MatchesFrom(s, old, i) : x <= y
         IN SubSeq(s, i, j - 1) \o new \o ReplaceFrom(s, old, new, j + Len(old))

replace(s, old, new) == ReplaceFrom(s, old, new, 1)

Lower(c) == CASE c = "O" -> "o" [] c = "I" -> "i" [] c = "C" -> "c"
              [] OTHER -> c

lower(s) == [i \in 1..Len(s) |-> Lower(s[i])]

\* Path.stem: the name without its last suffix
RECURSIVE LastDot(_, _)
LastDot(s, i) == IF i = 0 THEN 0 ELSE IF s[i] = "." THEN i ELSE LastDot(s, i - 1)

stem(name) == IF LastDot(name, Len(name)) <= 1 THEN name
              ELSE SubSeq(name, 1, LastDot(name, Len(name)) - 1)

\* html.escape(s, quote=True)
EscapeChar(c) == CASE c = "&" -> <<"&", "a", "m", "p", ";">>
                   [] c = "<" -> <<"&", "l", "t", ";">>
                   [] c = ">" -> <<"&", "g", "t", ";">>
                   [] c = "\"" -> <<"&", "q", "u", "o", "t", ";">>
                   [] c = "'" -> <<"&", "#", "x", "2", "7", ";">>
                   [] OTHER -> <<c>>

RECURSIVE EscapeFrom(_, _)
EscapeFrom(s, i) == IF i > Len(s) THEN <<>>
                    ELSE EscapeChar(s[i]) \o EscapeFrom(s, i + 1)

escape_noop(s) == s

escape(s) == EscapeFrom(s, 1)

\* ---------------------------------------------------------------- values
\* A loaded value: text, integer, float (one decimal), timestamp or None.
NoDate == <<0, 0, 0, 0, 0, 0>>
StrV(s) == [t |-> "str", s |-> s, n |-> 0, f |-> 0, dt |-> NoDate]
IntV(n) == [t |-> "int", s |-> <<>>, n |-> n, f |-> 0, dt |-> NoDate]
FloatV(w, f) == [t |-> "float", s |-> <<>>, n |-> w, f |-> f, dt |-> NoDate]
TsV(dt) == [t |-> "ts", s |-> <<>>, n |-> 0, f |-> 0, dt |-> dt]
NoneV == [t |-> "none", s |-> <<>>, n |-> 0, f |-> 0, dt |-> NoDate]

\* str(value)
str(v) == CASE v.t = "str" -> v.s
            [] v.t = "int" -> Digits(v.n)
            [] v.t = "float" -> Digits(v.n) \o <<".">> \o Digits(v.f)
            [] v.t = "none" -> <<"N", "o", "n", "e">>
            [] v.t = "ts" -> Pad(Digits(v.dt[3]), 4) \o <<"-">> \o Pad(Digits(v.dt[2]), 2)
                             \o <<"-">> \o Pad(Digits(v.dt[1]), 2) \o <<" ">>
                             \o Pad(Digits(v.dt[4]), 2) \o <<":">> \o Pad(Digits(v.dt[5]), 2)
                             \o <<":">> \o Pad(Digits(v.dt[6]), 2)

\* value.strftime('%d.%m.%Y %H:%M:%S')
strftime(dt) == Pad(Digits(dt[1]), 2) \o <<".">> \o Pad(Digits(dt[2]), 2) \o <<".">>
                \o Pad(Digits(dt[3]), 4) \o <<" ">> \o Pad(Digits(dt[4]), 2) \o <<":">>
                \o Pad(Digits(dt[5]), 2) \o <<":">> \o Pad(Digits(dt[6]), 2)

\* int(text): surrounding whitespace stripped, optional sign, decimal digits
RECURSIVE LStrip(_)
LStrip(s) == IF s # <<>> /\ Head(s) \in Whitespace THEN LStrip(Tail(s)) ELSE s

RECURSIVE RStrip(_)
RStrip(s) == IF s # <<>> /\ s[Len(s)] \in Whitespace
             THEN RStrip(SubSeq(s, 1, Len(s) - 1)) ELSE s

strip(s) == RStrip(LStrip(s))

Unsigned(s) == IF s # <<>> /\ Head(s) \in {"+", "-"} THEN Tail(s) ELSE s

IsIntText(s) ==
    /\ Unsigned(strip(s)) # <<>>
    /\ \A i \in 1..Len(Unsigned(strip(s))) : Unsigned(strip(s))[i] \in DigitChars

RECURSIVE DigitsValue(_)
DigitsValue(s) == IF s = <<>> THEN 0
                  ELSE 10 * DigitsValue(SubSeq(s, 1, Len(s) - 1)) + DigitVal(s[Len(s)])

IntText(s) == IF Head(strip(s)) = "-" THEN 0 - DigitsValue(Unsigned(strip(s)))
              ELSE DigitsValue(Unsigned(strip(s)))

\* int(value) raises ValueError / TypeError exactly when CanInt is false
CanInt(v) == \/ v.t \in {"int", "float"}
             \/ v.t = "str" /\ IsIntText(v.s)

int(v) == CASE v.t = "int" -> v.n
            [] v.t = "float" -> v.n
            [] v.t = "str" -> IntText(v.s)

\* --------------------------------------------------------------- records
\* A record is an ordered mapping: a sequence of [k, v] with distinct keys.
Keys(rec) == {rec[i].k : i \in 1..Len(rec)}
HasKey(rec, key) == key \in Keys(rec)
get(rec, key, default) ==
    IF HasKey(rec, key)
    THEN (CHOOSE e \in {rec[i] : i \in 1..Len(rec)} : e.k = key).v
    ELSE default

\* ---------------------------------------------------------- the renderer
Placeholder(key) == <<"{", "{", " ">> \o key \o <<" ", "}", "}">>

\* lines 117-120: the text form of a value
Format(v) == IF v.t = "ts" THEN strftime(v.dt) ELSE str(v)

RECURSIVE RenderFrom(_, _, _)
RenderFrom(text, rec, i) ==
    IF i > Len(rec) THEN text
    ELSE RenderFrom(replace(text, Placeholder(rec[i].k), escape(Format(rec[i].v))),
                    rec, i + 1)

render_template(template, rec) == RenderFrom(template, rec, 1)

\* re.findall(r'\{\{\s*([a-zA-Z_][a-zA-Z0-9_]*)\s*\}\}', text)
IdentStart == Letters \cup {"_"}
IdentChar == IdentStart \cup DigitChars

RECURSIVE SkipWhile(_, _, _)
SkipWhile(s, i, chars) == IF i <= Len(s) /\ s[i] \in chars
                          THEN SkipWhile(s, i + 1, chars) ELSE i

\* the match attempted at position i: [ok, name, end]
MatchAt(s, i) ==
    LET a == SkipWhile(s, i + 2, Whitespace)
        b == SkipWhile(s, a, IdentChar)
        c == SkipWhile(s, b, Whitespace)
        ok == /\ StartsWithAt(s, <<"{", "{">>, i)
              /\ a <= Len(s) /\ s[a] \in IdentStart
              /\ StartsWithAt(s, <<"}", "}">>, c)
    IN [ok |-> ok, name |-> IF ok THEN SubSeq(s, a, b - 1) ELSE <<>>, end |-> c + 2]

RECURSIVE FindAllFrom(_, _)
FindAllFrom(s, i) ==
    IF i > Len(s) THEN {}
    ELSE IF MatchAt(s, i).ok
         THEN {MatchAt(s, i).name} \cup FindAllFrom(s, MatchAt(s, i).end)
         ELSE FindAllFrom(s, i + 1)

extract_placeholders(template) == FindAllFrom(template, 1)

\* BeautifulSoup(content, "html.parser").find() is not None: the text holds
\* at least one start tag, "<" + letter ... ">" with no "<" or ">" inside
validate_html(content) ==
    \E i \in 1..Len(content) : \E j \in (i + 2)..Len(content) :
        /\ content[i] = "<"
        /\ content[i + 1] \in Letters
        /\ content[j] = ">"
        /\ \A m \in (i + 1)..(j - 1) : content[m] \notin {"<", ">"}

\* ------------------------------------------------------ the input space
K_id == <<"i", "d">>
K_name == <<"n", "a", "m", "e">>
K_category == <<"c", "a", "t", "e", "g", "o", "r", "y">>
K_price == <<"p", "r", "i", "c", "e">>
K_a == <<"a">>
K_b == <<"b">>

E(k, v) == [k |-> k, v |-> v]

\* records a data file may hold
R1 == <<E(K_id, StrV(<<"A", " ", "1">>)), E(K_name, StrV(<<"<", "b", ">">>)), E(K_price, IntV(10))>>
R2 == <<E(K_name, StrV(<<"A", "_", "1">>)), E(K_price, StrV(<<"a", "b", "c">>))>>
R3 == <<E(K_price, FloatV(2, 5)), E(K_id, StrV(<<"A", "_", "1">>))>>
R4 == <<>>
RecordPool == {R1, R2, R3, R4}

RECURSIVE SeqsUpTo(_, _)
SeqsUpTo(S, n) == IF n = 0 THEN {<<>>}
                  ELSE SeqsUpTo(S, n - 1)
                       \cup {Append(q, x) : q \in {p \in SeqsUpTo(S, n - 1) : Len(p) = n - 1}, x \in S}

RecordSeqs == SeqsUpTo(RecordPool, MaxRecords)

KeySeq(rec) == [i \in 1..Len(rec) |-> rec[i].k]
Uniform(rows) == \A i \in 1..Len(rows) : KeySeq(rows[i]) = KeySeq(rows[1])

Sources ==
    {[suffix |-> <<".", "j", "s", "o", "n">>, parsed |-> TRUE, rows |-> r] : r \in RecordSeqs}
    \cup {[suffix |-> <<".", "c", "s", "v">>, parsed |-> TRUE, rows |-> r] :
              r \in {q \in RecordSeqs : Len(q) <= 2 /\ Uniform(q)}}
    \cup {[suffix |-> <<".", "c", "s", "v">>, parsed |-> FALSE, rows |-> <<>>],
          [suffix |-> <<".", "j", "s", "o", "n">>, parsed |-> FALSE, rows |-> <<>>]}

NoSource == [suffix |-> <<".", "c", "s", "v">>, parsed |-> FALSE, rows |-> <<>>]

TemplateFiles ==
    {[name |-> <<"c", "a", "r", "d", ".", "h", "t", "m", "l">>, readable |-> TRUE,
      text |-> <<"<", "p", ">", "{", "{", " ", "i", "d", " ", "}", "}", ":", " ", "{", "{", " ", "n", "a", "m", "e", " ", "}", "}", " ", "{", "{", "p", "r", "i", "c", "e", "}", "}", "<", "/", "p", ">">>],
     [name |-> <<"c", "a", "r", "d", ".", "h", "t", "m", "l">>, readable |-> FALSE, text |-> <<>>],
     [name |-> <<"n", "o", "t", "e", ".", "h", "t", "m", "l">>, readable |-> TRUE, text |-> <<"{", "{", " ", "n", "a", "m", "e", " ", "}", "}", " ", "<", " ", "5">>],
     [name |-> <<"O", "r", "d", "e", "r", "_", "I", "n", "v", "o", "i", "c", "e", ".", "h", "t", "m", "l">>, readable |-> TRUE,
      text |-> <<"<", "h", "1", ">", "{", "{", " ", "i", "n", "v", "o", "i", "c", "e", "_", "i", "d", " ", "}", "}", "<", "/", "h", "1", ">", "<", "t", "a", "b", "l", "e", ">", "{", "{", " ", "t", "a", "b", "l", "e", "_", "r", "o", "w", "s", " ", "}", "}", "<", "/", "t", "a", "b", "l", "e", ">", "<", "b", ">", "{", "{", " ", "g", "r", "a", "n", "d", "_", "t", "o", "t", "a", "l", " ", "}", "}", "<", "/", "b", ">">>]}

NoTemplate == [name |-> <<"c", "a", "r", "d", ".", "h", "t", "m", "l">>, readable |-> FALSE, text |-> <<>>]

\* inputs of the renderer checks
RenderPieces == {<<"{", "{", " ", "a", " ", "}", "}">>, <<"{", "{", "a", "}", "}">>, <<"{", "{", " ", " ", "a", " ", " ", "}", "}">>, <<"{", "{", " ", "b", " ", "}", "}">>, <<"<", "p", ">">>, <<"{", "{", " ", "c", " ", "}", "}">>}
RenderTemplates == {t \in SeqsUpTo(RenderPieces, MaxParts) : TRUE}

RECURSIVE Flatten(_)
Flatten(parts) == IF parts = <<>> THEN <<>> ELSE Head(parts) \o Flatten(Tail(parts))

RenderValues == {StrV(<<"X">>), StrV(<<"<", "s", "c", "r", "i", "p", "t", ">">>), StrV(<<"{", "{", " ", "b", " ", "}", "}">>), StrV(<<"a", " ", "&", " ", "\"", "b", "\"">>),
                 IntV(25), TsV(<<2, 1, 2024, 3, 4, 5>>)}
RenderRecords ==
    {<<>>}
    \cup {<<E(k, v)>> : k \in {K_a, K_b}, v \in RenderValues}
    \cup {<<E(K_a, v), E(K_b, w)>> : v \in RenderValues, w \in RenderValues}
    \cup {<<E(K_b, v), E(K_a, w)>> : v \in RenderValues, w \in RenderValues}

\* ------------------------------------------------------------ the loader
load_csv(file) == IF file.parsed THEN file.rows ELSE <<>>

load_json(file) == IF file.parsed THEN file.rows ELSE <<>>

load_data(file) == IF lower(file.suffix) = <<".", "c", "s", "v">> THEN load_csv(file)
                   ELSE IF lower(file.suffix) = <<".", "j", "s", "o", "n">> THEN load_json(file)
                   ELSE <<>>

\* ------------------------------------------------------------- main()
\* datetime.now().strftime("%Y%m%d_%H%M%S"); the day is fixed, the clock
\* supplies the seconds
Timestamp(now) == <<"2", "0", "2", "6", "0", "1", "0", "1", "_", "0", "0", "0", "0">> \o Pad(Digits(now % 60), 2)

\* datetime.now().strftime("%d.%m.%Y")
Today == <<"0", "1", ".", "0", "1", ".", "2", "0", "2", "6">>

IdField_FirstKey(first) == first[1].k

\* line 303: 'id' if 'id' in data_records[0] else the first key
IdField(first) == IF HasKey(first, K_id) THEN K_id ELSE first[1].k

\* lines 309 / 324: safe_id
SafeId(record, field) ==
    replace(str(get(record, field, StrV(<<"u", "n", "k", "n", "o", "w", "n">>))), <<" ">>, <<"_">>)

\* lines 310 / 325: output_path.name
OutputName(file_stem, safe_id, ts) ==
    file_stem \o <<"_">> \o safe_id \o <<"_">> \o ts \o <<".", "p", "d", "f">>

\* files in OUTPUT_DIR after write_pdf(target=path): an existing file of
\* that name is overwritten
Written(d, name, html) == {f \in d : f.name # name} \cup {[name |-> name, html |-> html]}

\* lines 241: the invoice dispatch
IsInvoice(name) == Contains(lower(name), <<"o", "r", "d", "e", "r", "_", "i", "n", "v", "o", "i", "c", "e">>)

selected_products(records) ==
    SubSeq(records, 1, IF Len(records) < InvoiceLimit THEN Len(records) ELSE InvoiceLimit)

Price(prod) == get(prod, K_price, IntV(0))

\* number of leading products whose price int() accepts
RECURSIVE Accepted(_, _)
Accepted(prods, i) == IF i > Len(prods) \/ ~CanInt(Price(prods[i])) THEN i - 1
                      ELSE Accepted(prods, i + 1)

\* lines 259-268: one table row
Row(i, name, category, price, quantity, total) ==
    <<"\n", " ", " ", " ", " ", " ", " ", " ", " ", " ", " ", " ", " ", "<", "t", "r", ">", "\n", " ", " ", " ", " ", " ", " ", " ", " ", " ", " ", " ", " ", " ", " ", " ", " ", "<", "t", "d", ">">> \o Digits(i)
    \o <<"<", "/", "t", "d", ">", "\n", " ", " ", " ", " ", " ", " ", " ", " ", " ", " ", " ", " ", " ", " ", " ", " ", "<", "t", "d", ">">> \o name
    \o <<"<", "/", "t", "d", ">", "\n", " ", " ", " ", " ", " ", " ", " ", " ", " ", " ", " ", " ", " ", " ", " ", " ", "<", "t", "d", ">">> \o category
    \o <<"<", "/", "t", "d", ">", "\n", " ", " ", " ", " ", " ", " ", " ", " ", " ", " ", " ", " ", " ", " ", " ", " ", "<", "t", "d", ">">> \o Digits(price)
    \o <<"<", "/", "t", "d", ">", "\n", " ", " ", " ", " ", " ", " ", " ", " ", " ", " ", " ", " ", " ", " ", " ", " ", "<", "t", "d", ">">> \o Digits(quantity)
    \o <<"<", "/", "t", "d", ">", "\n", " ", " ", " ", " ", " ", " ", " ", " ", " ", " ", " ", " ", " ", " ", " ", " ", "<", "t", "d", ">">> \o Digits(total)
    \o <<"<", "/", "t", "d", ">", "\n", " ", " ", " ", " ", " ", " ", " ", " ", " ", " ", " ", " ", "<", "/", "t", "r", ">", "\n", " ", " ", " ", " ", " ", " ", " ", " ", " ", " ", " ", " ">>

\* lines 249-268: the loop over the first n selected products; the defaults
\* and the fixed invoice texts are transliterated to ASCII
RECURSIVE InvoiceLoop(_, _)
InvoiceLoop(prods, n) ==
    IF n = 0 THEN [table_rows |-> <<>>, grand_total |-> 0]
    ELSE LET before == InvoiceLoop(prods, n - 1)
             prod == prods[n]
             name == escape(str(get(prod, K_name, StrV(<<"N", "e", "i", "z", "v", "e", "s", "t", "n", "o">>))))
             category == escape(str(get(prod, K_category, StrV(<<"R", "a", "z", "n", "o", "e">>))))
             price == int(Price(prod))
             quantity == 1
             total == price * quantity
         IN [table_rows |-> before.table_rows \o Row(n, name, category, price, quantity, total),
             grand_total |-> before.grand_total + total]

\* lines 270-277
invoice_data(table_rows, total) ==
    <<E(<<"i", "n", "v", "o", "i", "c", "e", "_", "i", "d">>, StrV(<<"I", "N", "V", "-", "1", "0", "0", "1">>)),
      E(<<"c", "u", "s", "t", "o", "m", "e", "r", "_", "n", "a", "m", "e">>, StrV(<<"I", "P", " ", "P", "e", "t", "r", "o", "v">>)),
      E(<<"d", "a", "t", "e">>, StrV(Today)),
      E(<<"p", "a", "y", "m", "e", "n", "t", "_", "m", "e", "t", "h", "o", "d">>, StrV(<<"B", "e", "z", "n", "a", "l">>)),
      E(<<"t", "a", "b", "l", "e", "_", "r", "o", "w", "s">>, StrV(table_rows)),
      E(<<"g", "r", "a", "n", "d", "_", "t", "o", "t", "a", "l">>, IntV(total))>>

\* lines 279-281: substitution without escaping
RECURSIVE FillFrom(_, _, _)
FillFrom(text, rec, i) ==
    IF i > Len(rec) THEN text
    ELSE FillFrom(replace(text, Placeholder(rec[i].k), str(rec[i].v)), rec, i + 1)

\* line 283
InvoiceName(ts) == <<"o", "r", "d", "e", "r", "_", "i", "n", "v", "o", "i", "c", "e", "_">> \o <<"I", "N", "V", "-", "1", "0", "0", "1">> \o <<"_">> \o ts \o <<".", "p", "d", "f">>

Init ==
    /\ files_found \in {"both", "no_data", "no_templates"}
    /\ src \in IF files_found = "both" THEN Sources ELSE {NoSource}
    /\ tfile \in IF files_found = "both" THEN TemplateFiles ELSE {NoTemplate}
    /\ pc = "start"
    /\ data_records = <<>>
    /\ template_content = <<>>
    /\ placeholders = {}
    /\ clock = 0
    /\ timestamp = <<>>
    /\ mode = "none"
    /\ id_field = <<>>
    /\ idx = 0
    /\ generated_files = <<>>
    /\ gen_idx = <<>>
    /\ conv_log = <<>>
    /\ disk = {}
    /\ log = <<>>
    /\ grand_total = 0
    /\ outcome = "running"
    /\ viewer = <<>>
    /\ reported = -1
    /\ render_calls = 0
    /\ pdf_calls = 0
    /\ data = <<>>
    /\ result = <<>>

\* lines 181-193
Start ==
    /\ pc = "start"
    /\ IF files_found = "both"
       THEN pc' = "load" /\ outcome' = outcome
       ELSE pc' = "done" /\ outcome' = files_found
    /\ UNCHANGED <<files_found, src, tfile, data_records, template_content,
                   placeholders, clock, timestamp, mode, id_field, idx,
                   generated_files, gen_idx, conv_log, disk, log, grand_total,
                   viewer, reported, render_calls, pdf_calls, data, result>>

\* lines 195-212
LoadData ==
    /\ pc = "load"
    /\ data_records' = load_data(src)
    /\ log' = IF src.parsed THEN log ELSE Append(log, "load_error")
    /\ IF load_data(src) = <<>>
       THEN pc' = "done" /\ outcome' = "load_failed"
       ELSE pc' = "template" /\ outcome' = outcome
    /\ UNCHANGED <<files_found, src, tfile, template_content,
                   placeholders, clock, timestamp, mode, id_field, idx,
                   generated_files, gen_idx, conv_log, disk, grand_total,
                   viewer, reported, render_calls, pdf_calls, data, result>>

ReadTemplate_NoValidation ==
    /\ pc = "template"
    /\ timestamp' = Timestamp(clock)
    /\ IF ~tfile.readable
       THEN /\ pc' = "done" /\ outcome' = "template_unreadable"
            /\ UNCHANGED <<template_content, placeholders, mode>>
       ELSE /\ template_content' = tfile.text
            /\ placeholders' = extract_placeholders(tfile.text)
            /\ outcome' = outcome
            /\ IF IsInvoice(tfile.name)
               THEN pc' = "invoice" /\ mode' = "invoice"
               ELSE pc' = "ask_mode" /\ mode' = mode
    /\ UNCHANGED <<files_found, src, tfile, data_records, clock, id_field, idx,
                   generated_files, gen_idx, conv_log, disk, log, grand_total,
                   viewer, reported, render_calls, pdf_calls, data, result>>

\* lines 214-241: capture the timestamp, read and validate the template,
\* extract the placeholders, choose the invoice or the per-record path
ReadTemplate ==
    /\ pc = "template"
    /\ timestamp' = Timestamp(clock)
    /\ IF ~tfile.readable
       THEN /\ pc' = "done" /\ outcome' = "template_unreadable"
            /\ UNCHANGED <<template_content, placeholders, mode>>
       ELSE IF ~validate_html(tfile.text)
       THEN /\ pc' = "done" /\ outcome' = "invalid_template"
            /\ template_content' = tfile.text
            /\ UNCHANGED <<placeholders, mode>>
       ELSE /\ template_content' = tfile.text
            /\ placeholders' = extract_placeholders(tfile.text)
            /\ outcome' = outcome
            /\ IF IsInvoice(tfile.name)
               THEN pc' = "invoice" /\ mode' = "invoice"
               ELSE pc' = "ask_mode" /\ mode' = mode
    /\ UNCHANGED <<files_found, src, tfile, data_records, clock, id_field, idx,
                   generated_files, gen_idx, conv_log, disk, log, grand_total,
                   viewer, reported, render_calls, pdf_calls, data, result>>

\* lines 340-348: an exception that leaves main() is logged as critical
Crashed ==
    /\ pc' = "done"
    /\ outcome' = "crash"
    /\ log' = Append(log, "critical")

\* lines 241-298: the whole invoice path
Invoice ==
    /\ pc = "invoice"
    /\ \E ok \in BOOLEAN, open \in BOOLEAN :
        LET prods == selected_products(data_records)
            n == Accepted(prods, 1)
            loop == InvoiceLoop(prods, n)
            html_content == FillFrom(template_content,
                                     invoice_data(loop.table_rows, loop.grand_total), 1)
            name == InvoiceName(timestamp)
        IN IF Len(prods) = 0
           THEN /\ pc' = "done" /\ outcome' = "insufficient_data"
                /\ UNCHANGED <<clock, generated_files, gen_idx, conv_log, disk, log,
                               grand_total, viewer, pdf_calls>>
           ELSE IF n < Len(prods)
           THEN /\ Crashed
                /\ grand_total' = loop.grand_total
                /\ UNCHANGED <<clock, generated_files, gen_idx, conv_log, disk,
                               viewer, pdf_calls>>
           ELSE /\ grand_total' = loop.grand_total
                /\ pdf_calls' = pdf_calls + 1
                /\ clock' = clock + 1
                /\ conv_log' = Append(conv_log, ok)
                /\ pc' = "done"
                /\ gen_idx' = gen_idx
                /\ IF ok
                   THEN /\ disk' = Written(disk, name, html_content)
                        /\ log' = Append(log, "pdf_saved")
                        /\ generated_files' = <<name>>
                        /\ viewer' = IF open THEN Append(viewer, name) ELSE viewer
                        /\ outcome' = "invoice_done"
                   ELSE /\ log' = Append(log, "pdf_error")
                        /\ generated_files' = <<>>
                        /\ outcome' = "invoice_error"
                        /\ UNCHANGED <<disk, viewer>>
    /\ UNCHANGED <<files_found, src, tfile, data_records, template_content,
                   placeholders, timestamp, mode, id_field, idx,
                   reported, render_calls, data, result>>

\* lines 301-303: ask for the mode, choose the identifier field; next() on a
\* first record without keys raises StopIteration
AskMode ==
    /\ pc = "ask_mode"
    /\ \E batch_mode \in BOOLEAN :
        /\ mode' = IF batch_mode THEN "all" ELSE "single"
        /\ generated_files' = <<>>
        /\ IF data_records[1] = <<>>
           THEN Crashed /\ id_field' = id_field
           ELSE /\ id_field' = IdField(data_records[1])
                /\ pc' = IF batch_mode THEN "batch" ELSE "single"
                /\ UNCHANGED <<outcome, log>>
    /\ UNCHANGED <<files_found, src, tfile, data_records, template_content,
                   placeholders, clock, timestamp, idx, gen_idx, conv_log, disk,
                   grand_total, viewer, reported, render_calls, pdf_calls, data, result>>

\* lines 308-312 / 323-327 with generate_pdf (lines 126-147): render the
\* record, name the file, convert; ok is the converter's verdict, handler
\* is what the caller's except clause logs
Generate(record, i, ok, handler) ==
    LET html_content == render_template(template_content, record)
        safe_id == SafeId(record, id_field)
        name == OutputName(stem(tfile.name), safe_id, timestamp)
    IN /\ render_calls' = render_calls + 1
       /\ pdf_calls' = pdf_calls + 1
       /\ clock' = clock + 1
       /\ conv_log' = Append(conv_log, ok)
       /\ IF ok
          THEN /\ disk' = Written(disk, name, html_content)
               /\ generated_files' = Append(generated_files, name)
               /\ gen_idx' = Append(gen_idx, i)
               /\ log' = Append(log, "pdf_saved")
          ELSE /\ log' = log \o <<"pdf_error">> \o handler
               /\ UNCHANGED <<disk, generated_files, gen_idx>>

BatchRecord_AbortOnFailure ==
    /\ pc = "batch"
    /\ \E ok \in BOOLEAN :
        /\ Generate(data_records[idx + 1], idx + 1, ok, <<"record_error">>)
        /\ pc' = IF idx + 1 = Len(data_records) \/ ~ok THEN "finish" ELSE "batch"
    /\ idx' = idx + 1
    /\ UNCHANGED <<files_found, src, tfile, data_records, template_content,
                   placeholders, timestamp, mode, id_field, grand_total,
                   outcome, viewer, reported, data, result>>

\* lines 305-314: one iteration of the batch loop
BatchRecord ==
    /\ pc = "batch"
    /\ \E ok \in BOOLEAN :
        Generate(data_records[idx + 1], idx + 1, ok, <<"record_error">>)
    /\ idx' = idx + 1
    /\ pc' = IF idx + 1 = Len(data_records) THEN "finish" ELSE "batch"
    /\ UNCHANGED <<files_found, src, tfile, data_records, template_content,
                   placeholders, timestamp, mode, id_field, grand_total,
                   outcome, viewer, reported, data, result>>

SingleRecord_ContinueOnFailure ==
    /\ pc = "single"
    /\ \E record_choice \in 1..Len(data_records), ok \in BOOLEAN :
        Generate(data_records[record_choice], record_choice, ok, <<>>)
    /\ pc' = "finish"
    /\ UNCHANGED <<files_found, src, tfile, data_records, template_content,
                   placeholders, timestamp, mode, id_field, idx, grand_total,
                   outcome, viewer, reported, data, result>>

\* lines 315-331: the single-record path
SingleRecord ==
    /\ pc = "single"
    /\ \E record_choice \in 1..Len(data_records), ok \in BOOLEAN :
        /\ Generate(data_records[record_choice], record_choice, ok, <<>>)
        /\ IF ok
           THEN pc' = "finish" /\ outcome' = outcome
           ELSE pc' = "done" /\ outcome' = "single_error"
    /\ UNCHANGED <<files_found, src, tfile, data_records, template_content,
                   placeholders, timestamp, mode, id_field, idx, grand_total,
                   viewer, reported, data, result>>

\* lines 333-337: offer to open the last PDF, print the final report
Finish ==
    /\ pc = "finish"
    /\ \E open \in BOOLEAN :
        viewer' = IF generated_files # <<>> /\ open
                  THEN Append(viewer, generated_files[Len(generated_files)])
                  ELSE viewer
    /\ reported' = Len(generated_files)
    /\ outcome' = "report"
    /\ pc' = "done"
    /\ UNCHANGED <<files_found, src, tfile, data_records, template_content,
                   placeholders, clock, timestamp, mode, id_field, idx,
                   generated_files, gen_idx, conv_log, disk, log, grand_total,
                   render_calls, pdf_calls, data, result>>

Next == \/ Start
        \/ LoadData
        \/ ReadTemplate
        \/ Invoice
        \/ AskMode
        \/ BatchRecord
        \/ SingleRecord
        \/ Finish

Spec == Init /\ [][Next]_vars

\* main() is sequential code: once a per-record step or the final report is
\* reached it runs
FairSpec == Init /\ [][Next]_vars
            /\ WF_vars(BatchRecord) /\ WF_vars(SingleRecord) /\ WF_vars(Finish)

\* ------------------------------------------- the renderer on its own
RenderInit ==
    /\ files_found = "both"
    /\ src = NoSource
    /\ tfile = NoTemplate
    /\ pc = "render"
    /\ data_records = <<>>
    /\ template_content \in {Flatten(t) : t \in RenderTemplates}
    /\ placeholders = {}
    /\ clock = 0
    /\ timestamp = <<>>
    /\ mode = "none"
    /\ id_field = <<>>
    /\ idx = 0
    /\ generated_files = <<>>
    /\ gen_idx = <<>>
    /\ conv_log = <<>>
    /\ disk = {}
    /\ log = <<>>
    /\ grand_total = 0
    /\ outcome = "running"
    /\ viewer = <<>>
    /\ reported = -1
    /\ render_calls = 0
    /\ pdf_calls = 0
    /\ data \in RenderRecords
    /\ result = <<>>

\* result = render_template(template_content, data), with the placeholders
\* extract_placeholders reports for the same text
Render ==
    /\ pc = "render"
    /\ result' = render_template(template_content, data)
    /\ placeholders' = extract_placeholders(template_content)
    /\ pc' = "rendered"
    /\ UNCHANGED <<files_found, src, tfile, data_records, template_content,
                   clock, timestamp, mode, id_field, idx, generated_files,
                   gen_idx, conv_log, disk, log, grand_total, outcome, viewer,
                   reported, render_calls, pdf_calls, data>>

RenderNext == Render

RenderSpec == RenderInit /\ [][RenderNext]_vars

\* ================================================================ claims
Successes(s) == Cardinality({i \in 1..Len(s) : s[i]})
LogCount(kind) == Cardinality({i \in 1..Len(log) : log[i] = kind})

\* C1: in batch mode, once the loop runs over N loaded records of which K
\* convert and N-K raise, the loop visits all N records, the final report
\* counts exactly K artifacts and exactly N-K record failures are logged.
C1_BatchCounts ==
    /\ (mode = "all" /\ pc = "batch") => (idx < Len(data_records) /\ Len(conv_log) = idx)
    /\ (mode = "all" /\ pc \in {"finish", "done"} /\ outcome # "crash") =>
          /\ idx = Len(data_records)
          /\ Len(conv_log) = Len(data_records)
          /\ Len(generated_files) = Successes(conv_log)
          /\ LogCount("record_error") = Len(data_records) - Successes(conv_log)
          /\ pc = "done" => (outcome = "report" /\ reported = Successes(conv_log))

C1_Witness ==
    /\ mode = "all" /\ pc = "done" /\ outcome = "report"
    /\ Len(data_records) >= 3
    /\ reported = 2
    /\ LogCount("record_error") = Len(data_records) - 2

\* the price the invoice is said to use: the integer the price coerces to, 0
\* when the field is absent or not convertible
ClaimedPrice(prod) == IF HasKey(prod, K_price) /\ CanInt(get(prod, K_price, IntV(0)))
                      THEN int(get(prod, K_price, IntV(0))) ELSE 0

RECURSIVE ClaimedTotal(_, _)
ClaimedTotal(records, n) == IF n = 0 THEN 0
                            ELSE ClaimedTotal(records, n - 1) + ClaimedPrice(records[n])

FirstThree(records) == IF Len(records) < 3 THEN Len(records) ELSE 3

InvoiceRun == /\ files_found = "both" /\ tfile.readable
              /\ validate_html(tfile.text) /\ IsInvoice(tfile.name)

\* C2: in invoice mode the grand total equals the sum of price x 1 over
\* exactly the first min(3, available) records and, the converter accepting
\* the document, exactly one artifact is produced from them; with 0 records
\* nothing is produced and the run is stopped for lack of data.
C2_InvoiceTotal ==
    (InvoiceRun /\ pc = "done") =>
        IF load_data(src) = <<>>
        THEN generated_files = <<>> /\ disk = {}
             /\ outcome \in {"load_failed", "insufficient_data"}
        ELSE conv_log # <<FALSE>> =>
                /\ grand_total = ClaimedTotal(data_records, FirstThree(data_records))
                /\ Len(generated_files) = 1
                /\ Cardinality(disk) = 1

\* C3: for every key of the record, render_template substitutes the key's
\* placeholder whatever whitespace it has inside the braces: no placeholder
\* of a record key (as extract_placeholders recognises them) is left in the
\* rendering of a record whose values hold no braces.
BraceFree(rec) == \A i \in 1..Len(rec) : Count(Format(rec[i].v), {"{", "}"}) = 0

C3_AllFormsSubstituted ==
    (pc = "rendered" /\ BraceFree(data)) =>
        \A k \in Keys(data) : k \notin extract_placeholders(result)

\* C4: whatever render_template inserts from a record value is escaped: the
\* rendering holds exactly the markup delimiters of the template, and a
\* value "<script>" substituted for its placeholder shows up escaped.
Live == {"<", ">"}

C4_EscapingSafe ==
    pc = "rendered" =>
        /\ Count(result, Live) = Count(template_content, Live)
        /\ \A i \in 1..Len(data) :
              (data[i].v = StrV(<<"<", "s", "c", "r", "i", "p", "t", ">">>) /\ ~Contains(template_content, <<"<", "s", "c", "r", "i", "p", "t", ">">>))
                  => ~Contains(result, <<"<", "s", "c", "r", "i", "p", "t", ">">>)

C4_Witness ==
    /\ pc = "rendered"
    /\ \E i \in 1..Len(data) :
          /\ data[i].v = StrV(<<"<", "s", "c", "r", "i", "p", "t", ">">>)
          /\ Contains(template_content, Placeholder(data[i].k))
    /\ Contains(result, <<"&", "l", "t", ";", "s", "c", "r", "i", "p", "t", "&", "g", "t", ";">>)
    /\ Count(template_content, Live) = 0

\* C5: the identifier field is 'id' when the first record has that key,
\* else the first key of the first record; every file of the run is named
\* <stem>_<that field's value, spaces as underscores>_<timestamp>.pdf
\* ('unknown' standing for a record without the field).
ExpectedField == IF \E i \in 1..Len(data_records[1]) : data_records[1][i].k = K_id
                 THEN K_id ELSE data_records[1][1].k

ExpectedId(record) ==
    IF \E i \in 1..Len(record) : record[i].k = ExpectedField
    THEN replace(str(get(record, ExpectedField, NoneV)), <<" ">>, <<"_">>)
    ELSE <<"u", "n", "k", "n", "o", "w", "n">>

C5_IdentifierField ==
    (mode \in {"all", "single"} /\ outcome # "crash") =>
        /\ id_field = ExpectedField
        /\ Len(gen_idx) = Len(generated_files)
        /\ \A j \in 1..Len(generated_files) :
              generated_files[j] = stem(tfile.name) \o <<"_">>
                                   \o ExpectedId(data_records[gen_idx[j]])
                                   \o <<"_">> \o timestamp \o <<".", "p", "d", "f">>

C5_Witness ==
    /\ mode = "all" /\ pc = "done"
    /\ ~HasKey(data_records[1], K_id)
    /\ id_field = K_name
    /\ Len(generated_files) >= 2
    /\ \E j \in 1..Len(generated_files) : HasKey(data_records[gen_idx[j]], K_id)

\* C6: within one batch run no two different records are written to the same
\* output file name: every counted artifact is a distinct file.
C6_NoCollision ==
    mode = "all" =>
        /\ \A i, j \in 1..Len(generated_files) :
              i # j => generated_files[i] # generated_files[j]
        /\ Cardinality(disk) = Len(generated_files)

\* C7: in invoice mode a selected record whose price is absent or not
\* convertible to an integer contributes 0 to the grand total and the
\* invoice is still produced (the converter accepting the document).
C7_PriceDefault ==
    (/\ mode = "invoice" /\ pc = "done"
     /\ \E i \in 1..FirstThree(data_records) :
           ~HasKey(data_records[i], K_price) \/ ~CanInt(Price(data_records[i])))
    => /\ outcome # "crash"
       /\ conv_log = <<TRUE>> =>
             /\ outcome = "invoice_done"
             /\ grand_total = ClaimedTotal(data_records, FirstThree(data_records))

\* C8: render_template and generate_pdf are called only after the loader
\* returned records and the template was read and passed validate_html; an
\* empty load or an unusable template ends the run with no artifact.
C8_StructuralFirst ==
    /\ (render_calls > 0 \/ pdf_calls > 0) =>
          /\ data_records # <<>>
          /\ tfile.readable
          /\ template_content = tfile.text
          /\ validate_html(template_content)
    /\ (\/ load_data(src) = <<>>
        \/ ~tfile.readable
        \/ ~validate_html(tfile.text)) =>
          /\ render_calls = 0 /\ pdf_calls = 0
          /\ generated_files = <<>> /\ disk = {}
          /\ pc = "done" => outcome \in {"no_data", "no_templates", "load_failed",
                                         "template_unreadable", "invalid_template"}

C8_Witness ==
    /\ pc = "done" /\ outcome = "invalid_template"
    /\ data_records # <<>>
    /\ render_calls = 0 /\ pdf_calls = 0 /\ disk = {}

\* one pass over the template: each placeholder of a record key found in the
\* template text is replaced by the escaped value, inserted text is not
\* looked at again
KeyAt(text, rec, i) == {n \in 1..Len(rec) : StartsWithAt(text, Placeholder(rec[n].k), i)}

RECURSIVE SinglePassFrom(_, _, _)
SinglePassFrom(text, rec, i) ==
    IF i > Len(text) THEN <<>>
    ELSE IF KeyAt(text, rec, i) # {}
         THEN LET n == CHOOSE n \in KeyAt(text, rec, i) : TRUE
              IN escape(Format(rec[n].v))
                 \o SinglePassFrom(text, rec, i + Len(Placeholder(rec[n].k)))
         ELSE <<text[i]>> \o SinglePassFrom(text, rec, i + 1)

\* C9: render_template is a flat single-pass substitution: text inserted
\* from a record value is never substituted again, whatever the key order.
C9_SinglePass ==
    pc = "rendered" => result = SinglePassFrom(template_content, data, 1)

\* C10: in single mode a failed render or conversion stops the run: nothing
\* is recorded, the viewer is not invoked, the final report is not printed;
\* a batch run always reaches the final report, even if every record fails.
C10_SingleStopsBatchReports ==
    /\ []((mode = "single" /\ pc \in {"finish", "done"} /\ conv_log = <<FALSE>>) =>
            /\ pc = "done"
            /\ generated_files = <<>> /\ disk = {}
            /\ viewer = <<>>
            /\ reported = -1 /\ outcome # "report")
    /\ (mode = "all" /\ pc = "batch") ~> (outcome = "report" /\ reported >= 0)

C10_Witness ==
    /\ mode = "single" /\ pc = "done" /\ conv_log = <<FALSE>>
    /\ outcome = "single_error"

====
